---- MODULE Spec2Model ----
\* Verification model of src/synthesis/search.py (expression algebra and the
\* size-bounded enumerator enumerate_exprs) and of src/legacy_reimburse.py.
\*
\* Python strings are modelled as sequences of code points, so that the
\* lexicographic comparison used by should_emit_binary is computed, not assumed.
\* Multipliers (floats with at most two decimals in the source pool) are kept
\* in hundredths; of an evaluation only the outcome (a float, or the exception
\* raised) is kept.
EXTENDS Integers, Sequences, FiniteSets, TLC

VARIABLES
    VAR_NAMES,      \* module global VAR_NAMES (sequence of names)
    CONST_VALUES,   \* module global CONST_VALUES (sequence of ints)
    MULTIPLIERS,    \* module global MULTIPLIERS (sequence, in hundredths)
    ROUND_P,        \* module global ROUND_P (sequence of ints)
    pc,             \* position inside enumerate_exprs ("idle" between calls)
    max_size,       \* argument of the running / last call
    memo,           \* local dict memo: size -> list of Expr
    size,           \* loop variable of `for size in range(2, max_size + 1)`
    current,        \* local list current
    left_size,      \* loop variable of the binary split loop
    reads,          \* size classes read so far while building class `size`
    s,              \* loop variable of the aggregation loop
    all_exprs,      \* local list all_exprs
    result,         \* value returned by the last completed call (None before)
    prev,           \* <<max_size, result>> of the call completed before that
    evalEnv,        \* environment of the last evaluation sweep (None if none)
    evalOut,        \* outcomes of e.eval(evalEnv) for every e of result
    lr_in,          \* arguments <<d, m, r>> of legacy_reimburse (r in 1/1000)
    lr_out          \* value returned by legacy_reimburse (in 1/1000), or None

enumVars == <<pc, max_size, memo, size, current, left_size, reads, s,
              all_exprs, result, prev, evalEnv, evalOut>>
poolVars == <<VAR_NAMES, CONST_VALUES, MULTIPLIERS, ROUND_P>>
legacyVars == <<lr_in, lr_out>>
vars == <<VAR_NAMES, CONST_VALUES, MULTIPLIERS, ROUND_P, pc, max_size, memo,
          size, current, left_size, reads, s, all_exprs, result, prev,
          evalEnv, evalOut, lr_in, lr_out>>

\* Python's None, and a present value x, as sequences of length 0 and 1.
None == <<>>
Some(x) == <<x>>

\* ------------------------------------------------------------------ bounds
\* Largest max_size passed to enumerate_exprs.
MaxSize == 4
\* Largest max_size passed under the module's own pools.
MaxSizeSource == 2
\* Pools with more terms than this are run up to MaxSizeSource only.
MaxSmallPool == 4
\* Longest trip (days) passed to legacy_reimburse.
MaxDays == 10

\* ------------------------------------------------------------- Python text
Range(f) == {f[i] : i \in DOMAIN f}

\* Code points of the characters that occur in canonical strings.
Ord ==
    [sp |-> 32, lp |-> 40, rp |-> 41, star |-> 42, plus |-> 43, comma |-> 44,
     minus |-> 45, dot |-> 46, slash |-> 47, zero |-> 48,
     a |-> 97, d |-> 100, i |-> 105, m |-> 109, n |-> 110, o |-> 111,
     r |-> 114, u |-> 117, x |-> 120]

\* The text of a variable name.
NameText(name) ==
    CASE name = "d" -> <<Ord.d>>
      [] name = "m" -> <<Ord.m>>
      [] name = "r" -> <<Ord.r>>
      [] name = "x" -> <<Ord.x>>

\* The text of an operator symbol.
OpText(op) ==
    CASE op = "+" -> <<Ord.plus>>
      [] op = "-" -> <<Ord.minus>>
      [] op = "*" -> <<Ord.star>>
      [] op = "/" -> <<Ord.slash>>
      [] op = "max" -> <<Ord.m, Ord.a, Ord.x>>
      [] op = "min" -> <<Ord.m, Ord.i, Ord.n>>

RECURSIVE NatText(_)
\* str(n) for an int n >= 0: decimal digits, most significant first.
NatText(n) ==
    IF n < 10 THEN <<Ord.zero + n>>
    ELSE NatText(n \div 10) \o <<Ord.zero + (n % 10)>>

\* str(n) for an int n.
IntText(n) == IF n < 0 THEN <<Ord.minus>> \o NatText(-n) ELSE NatText(n)

\* str(k) for a float k >= 0 with at most two decimals, given in hundredths:
\* the shortest repr, which always keeps one digit after the point.
FloatText(h) ==
    NatText(h \div 100) \o <<Ord.dot>> \o
    (IF h % 10 = 0 THEN <<Ord.zero + ((h % 100) \div 10)>>
     ELSE <<Ord.zero + ((h % 100) \div 10), Ord.zero + (h % 10)>>)

RECURSIVE StrLE(_, _)
\* Python's a <= b on str: lexicographic by code point, a prefix is smaller.
StrLE(a, b) ==
    IF a = <<>> THEN TRUE
    ELSE IF b = <<>> THEN FALSE
    ELSE IF Head(a) < Head(b) THEN TRUE
    ELSE IF Head(a) > Head(b) THEN FALSE
    ELSE StrLE(Tail(a), Tail(b))

\* ------------------------------------------------------------ AST classes
Const(value) == [tag |-> "Const", value |-> value]
Var(name) == [tag |-> "Var", name |-> name]
Binary(op, left, right) ==
    [tag |-> "Binary", op |-> op, left |-> left, right |-> right]
Scale(op, expr, k) == [tag |-> "Scale", op |-> op, expr |-> expr, k |-> k]
Round(expr, p) == [tag |-> "Round", expr |-> expr, p |-> p]

\* Const.__str__: every pool value is an int.
ConstStr(e) == IntText(e.value)

\* Var.__str__
VarStr(e) == NameText(e.name)

\* Binary.__str__ given the texts of the operands.
BinaryStr(op, l, r) ==
    IF op \in {"+", "-"}
    THEN <<Ord.lp>> \o l \o <<Ord.sp>> \o OpText(op) \o <<Ord.sp>> \o r
         \o <<Ord.rp>>
    ELSE OpText(op) \o <<Ord.lp>> \o l \o <<Ord.comma, Ord.sp>> \o r
         \o <<Ord.rp>>

\* Scale.__str__ with the operator ignored: '/' is printed as '*'.
ScaleStrSameOp(op, e, k) ==
    <<Ord.lp>> \o e \o <<Ord.sp, Ord.star, Ord.sp>> \o FloatText(k)
    \o <<Ord.rp>>

\* Scale.__str__ given the text of the operand.
ScaleStr(op, e, k) ==
    IF op = "*"
    THEN <<Ord.lp>> \o e \o <<Ord.sp, Ord.star, Ord.sp>> \o FloatText(k)
         \o <<Ord.rp>>
    ELSE <<Ord.lp>> \o e \o <<Ord.sp, Ord.slash, Ord.sp>> \o FloatText(k)
         \o <<Ord.rp>>

\* Round.__str__ given the text of the operand.
RoundStr(e, p) ==
    <<Ord.r, Ord.o, Ord.u, Ord.n, Ord.d, Ord.lp>> \o e
    \o <<Ord.comma, Ord.sp>> \o IntText(p) \o <<Ord.rp>>

RECURSIVE Str(_)
\* str(e): the canonical string of an expression.
Str(e) ==
    CASE e.tag = "Const" -> ConstStr(e)
      [] e.tag = "Var" -> VarStr(e)
      [] e.tag = "Binary" -> BinaryStr(e.op, Str(e.left), Str(e.right))
      [] e.tag = "Scale" -> ScaleStr(e.op, Str(e.expr), e.k)
      [] e.tag = "Round" -> RoundStr(Str(e.expr), e.p)

RECURSIVE Size(_)
\* e.size(): the number of nodes.
Size(e) ==
    CASE e.tag = "Const" -> 1
      [] e.tag = "Var" -> 1
      [] e.tag = "Binary" -> 1 + Size(e.left) + Size(e.right)
      [] e.tag = "Scale" -> 1 + Size(e.expr)
      [] e.tag = "Round" -> 1 + Size(e.expr)

\* -------------------------------------------------------------- evaluation
\* eval computes in IEEE-754 doubles. The double an evaluation returns is not
\* modelled: an outcome is either "a float was returned" or the exception that
\* was raised, which is all that depends on the structure of the expression,
\* on the names the environment binds and on the factor of a division.
Number == [ok |-> TRUE]
Raise(err) == [ok |-> FALSE, err |-> err]

\* Const.eval: float(self.value)
ConstEval(e, env) == Number

\* Var.eval with a default for a missing name: env.get(name, 0).
VarEvalDefault(e, env) == Number

\* Var.eval: float(env[self.name]); a missing key raises KeyError.
VarEval(e, env) ==
    IF e.name \in DOMAIN env THEN Number ELSE Raise("KeyError")

\* Binary.eval after both operands were evaluated, left first: an exception of
\* an operand propagates, an unknown op raises ValueError.
BinaryEval(op, l, r) ==
    IF ~l.ok THEN l
    ELSE IF ~r.ok THEN r
    ELSE IF op \in {"+", "-", "max", "min"} THEN Number
    ELSE Raise("ValueError")

\* Scale.eval after the operand was evaluated; k is in hundredths, and a
\* float division by zero raises ZeroDivisionError.
ScaleEval(op, val, k) ==
    IF ~val.ok THEN val
    ELSE IF op = "*" THEN Number
    ELSE IF k = 0 THEN Raise("ZeroDivisionError")
    ELSE Number

\* Round.eval after the operand was evaluated.
RoundEval(val, p) == IF ~val.ok THEN val ELSE Number

RECURSIVE Eval(_, _)
\* e.eval(env)
Eval(e, env) ==
    CASE e.tag = "Const" -> ConstEval(e, env)
      [] e.tag = "Var" -> VarEval(e, env)
      [] e.tag = "Binary" ->
            BinaryEval(e.op, Eval(e.left, env), Eval(e.right, env))
      [] e.tag = "Scale" -> ScaleEval(e.op, Eval(e.expr, env), e.k)
      [] e.tag = "Round" -> RoundEval(Eval(e.expr, env), e.p)

RECURSIVE VarsOf(_)
\* The Var names that occur anywhere in e.
VarsOf(e) ==
    CASE e.tag = "Const" -> {}
      [] e.tag = "Var" -> {e.name}
      [] e.tag = "Binary" -> VarsOf(e.left) \cup VarsOf(e.right)
      [] e.tag = "Scale" -> VarsOf(e.expr)
      [] e.tag = "Round" -> VarsOf(e.expr)

\* The numbers an environment binds a name to.
EnvValues == {-3, 7}

\* The environments: any subset of the configured names, bound to numbers.
Envs == UNION {[names -> EnvValues] : names \in SUBSET Range(VAR_NAMES)}

\* ------------------------------------------------------------- enumeration
COMMUTATIVE_OPS == {"+", "max", "min"}

\* The literal ['+', '-', 'max', 'min'] of the binary loop.
BINARY_OPS == <<"+", "-", "max", "min">>

\* The literal ['*', '/'] of the scale loop.
SCALE_OPS == <<"*", "/">>

\* generate_terms(): one Var per name, then one Const per value.
generate_terms ==
    [i \in 1..Len(VAR_NAMES) |-> Var(VAR_NAMES[i])]
    \o [i \in 1..Len(CONST_VALUES) |-> Const(CONST_VALUES[i])]

\* The skip with the comparison dropped: every ordered pair is emitted.
should_emit_binary_always(op, left, right) == TRUE

\* The skip with a strict comparison.
should_emit_binary_strict(op, left, right) ==
    IF op \in COMMUTATIVE_OPS
    THEN ~StrLE(Str(right), Str(left))
    ELSE TRUE

\* The comparison reversed: str(left) >= str(right).
should_emit_binary_ge(op, left, right) ==
    IF op \in COMMUTATIVE_OPS
    THEN StrLE(Str(right), Str(left))
    ELSE TRUE

\* should_emit_binary: for a commutative op, str(left) <= str(right).
should_emit_binary(op, left, right) ==
    IF op \in COMMUTATIVE_OPS
    THEN StrLE(Str(left), Str(right))
    ELSE TRUE

\* child_size = size - 1
child_size(sz) == sz - 1

\* The right size with the root node forgotten.
right_size_no_root(sz, ls) == sz - ls

\* right_size = size - 1 - left_size
right_size(sz, ls) == sz - 1 - ls

\* What the scale/round loops append for one child expr, in order:
\* Scale('*', expr, k) for each k, Scale('/', expr, k) for each k, then
\* Round(expr, p) for each p.
ScaleRoundOf(expr) ==
    [j \in 1..(Len(SCALE_OPS) * Len(MULTIPLIERS)) |->
        Scale(SCALE_OPS[((j - 1) \div Len(MULTIPLIERS)) + 1], expr,
              MULTIPLIERS[((j - 1) % Len(MULTIPLIERS)) + 1])]
    \o [j \in 1..Len(ROUND_P) |-> Round(expr, ROUND_P[j])]

\* The scale/round loops over a whole child class.
ScaleRoundAll(exprs) ==
    LET u == Len(SCALE_OPS) * Len(MULTIPLIERS) + Len(ROUND_P)
    IN  [j \in 1..(Len(exprs) * u) |->
            ScaleRoundOf(exprs[((j - 1) \div u) + 1])[((j - 1) % u) + 1]]

\* The three innermost binary loops for one split: every (left_expr,
\* right_expr, op) in loop order, kept when should_emit_binary says so.
BinaryFor(lefts, rights) ==
    LET nr == Len(rights)
        no == Len(BINARY_OPS)
        cands == [j \in 1..(Len(lefts) * nr * no) |->
                    Binary(BINARY_OPS[((j - 1) % no) + 1],
                           lefts[((j - 1) \div (nr * no)) + 1],
                           rights[(((j - 1) \div no) % nr) + 1])]
    IN  SelectSeq(cands,
                  LAMBDA e : should_emit_binary(e.op, e.left, e.right))

\* The pools as the module defines them.
SOURCE_POOLS ==
    [v |-> <<"d", "m", "r">>,
     c |-> <<0, 1, 2, 3, 4, 5, 10, 15, 20, 25, 50, 75, 100, 120, 150, 180,
             200, 250, 300, 400, 500, 600, 800, 1000>>,
     m |-> <<1, 10, 25, 40, 58, 80, 105>>,
     p |-> <<0, 2>>]

\* The pool configurations the enumerator is run with: the pools of the
\* module, and pools assigned afterwards: the scenario pools {x} / {1, 2},
\* empty pools, and sub-pools of the module's own pools.
Configs ==
    { SOURCE_POOLS,
      [v |-> <<"x">>, c |-> <<1, 2>>, m |-> <<>>, p |-> <<>>],
      [v |-> <<>>, c |-> <<>>, m |-> <<>>, p |-> <<>>],
      [v |-> <<>>, c |-> <<0, 1>>, m |-> <<25>>, p |-> <<0>>],
      [v |-> <<"d">>, c |-> <<>>, m |-> <<10>>, p |-> <<2>>],
      [v |-> <<"d", "m">>, c |-> <<10>>, m |-> <<25>>, p |-> <<>>],
      [v |-> <<"d", "m", "r">>, c |-> <<>>, m |-> <<>>, p |-> <<0>>],
      [v |-> <<"r">>, c |-> <<100>>, m |-> <<58>>, p |-> <<2>>],
      [v |-> <<"d">>, c |-> <<5>>, m |-> <<1, 105>>, p |-> <<>>] }

\* The largest max_size a call is made with under the current pools: the
\* module's own pools make every class about thirty times the one before.
SizeBound ==
    IF Len(VAR_NAMES) + Len(CONST_VALUES) > MaxSmallPool
    THEN MaxSizeSource
    ELSE MaxSize

Init ==
    /\ \E cfg \in Configs :
        /\ VAR_NAMES = cfg.v
        /\ CONST_VALUES = cfg.c
        /\ MULTIPLIERS = cfg.m
        /\ ROUND_P = cfg.p
    /\ pc = "idle"
    /\ max_size = 0
    /\ memo = <<>>
    /\ size = 0
    /\ current = <<>>
    /\ left_size = 0
    /\ reads = {}
    /\ s = 0
    /\ all_exprs = <<>>
    /\ result = None
    /\ prev = None
    /\ evalEnv = None
    /\ evalOut = <<>>
    /\ lr_in = None
    /\ lr_out = None

\* enumerate_exprs(n) is called: memo = {1: generate_terms()}.
Call ==
    /\ pc = "idle"
    /\ \E n \in 0..SizeBound :
        /\ max_size' = n
        /\ pc' = IF 2 <= n THEN "scale_round" ELSE "aggregate"
    /\ memo' = (1 :> generate_terms)
    /\ size' = 2
    /\ current' = <<>>
    /\ left_size' = 0
    /\ reads' = {}
    /\ s' = 1
    /\ all_exprs' = <<>>
    /\ prev' = IF result = None THEN prev ELSE <<max_size, result[1]>>
    /\ result' = None
    /\ evalEnv' = None
    /\ evalOut' = <<>>
    /\ UNCHANGED <<poolVars, legacyVars>>

\* current = []; then the Scale and Round constructions from memo[size - 1].
ScaleRoundStep ==
    /\ pc = "scale_round"
    /\ IF child_size(size) \in DOMAIN memo
       THEN /\ current' = ScaleRoundAll(memo[child_size(size)])
            /\ reads' = {child_size(size)}
       ELSE /\ current' = <<>>
            /\ reads' = {}
    /\ left_size' = 1
    /\ pc' = "binary"
    /\ UNCHANGED <<poolVars, legacyVars, max_size, memo, size, s, all_exprs,
                   result, prev, evalEnv, evalOut>>

\* One iteration of `for left_size in range(1, size - 1)`.
BinaryStep ==
    /\ pc = "binary"
    /\ left_size <= size - 2
    /\ LET rs == right_size(size, left_size)
       IN  IF rs < 1
           THEN UNCHANGED <<current, reads>>
           ELSE /\ current' =
                      current \o BinaryFor(memo[left_size], memo[rs])
                /\ reads' = reads \cup {left_size} \cup
                             (IF memo[left_size] # <<>> THEN {rs} ELSE {})
    /\ left_size' = left_size + 1
    /\ UNCHANGED <<poolVars, legacyVars, pc, max_size, memo, size, s,
                   all_exprs, result, prev, evalEnv, evalOut>>

\* memo[size] = current, at the end of the body of the size loop.
StoreClass ==
    /\ pc = "binary"
    /\ left_size > size - 2
    /\ memo' = (size :> current) @@ memo
    /\ size' = size + 1
    /\ pc' = IF size + 1 <= max_size THEN "scale_round" ELSE "aggregate"
    /\ UNCHANGED <<poolVars, legacyVars, max_size, current, left_size, reads,
                   s, all_exprs, result, prev, evalEnv, evalOut>>

\* The aggregation loop taking each class out of memo: memo.pop(s, []).
AggregateStepPop ==
    /\ pc = "aggregate"
    /\ s <= max_size
    /\ all_exprs' = all_exprs \o (IF s \in DOMAIN memo THEN memo[s] ELSE <<>>)
    /\ memo' = [k \in (DOMAIN memo) \ {s} |-> memo[k]]
    /\ s' = s + 1
    /\ UNCHANGED <<poolVars, legacyVars, pc, max_size, size, current,
                   left_size, reads, result, prev, evalEnv, evalOut>>

\* The aggregation loop assigning instead of extending.
AggregateStepAssign ==
    /\ pc = "aggregate"
    /\ s <= max_size
    /\ all_exprs' = (IF s \in DOMAIN memo THEN memo[s] ELSE <<>>)
    /\ s' = s + 1
    /\ UNCHANGED <<poolVars, legacyVars, pc, max_size, memo, size, current,
                   left_size, reads, result, prev, evalEnv, evalOut>>

\* One iteration of `for s in range(1, max_size + 1)`:
\* all_exprs.extend(memo.get(s, [])).
AggregateStep ==
    /\ pc = "aggregate"
    /\ s <= max_size
    /\ all_exprs' = all_exprs \o (IF s \in DOMAIN memo THEN memo[s] ELSE <<>>)
    /\ s' = s + 1
    /\ UNCHANGED <<poolVars, legacyVars, pc, max_size, memo, size, current,
                   left_size, reads, result, prev, evalEnv, evalOut>>

\* return all_exprs
Return ==
    /\ pc = "aggregate"
    /\ s > max_size
    /\ result' = Some(all_exprs)
    /\ pc' = "idle"
    /\ UNCHANGED <<poolVars, legacyVars, max_size, memo, size, current,
                   left_size, reads, s, all_exprs, prev, evalEnv, evalOut>>

\* A caller evaluates every returned expression in one environment:
\* [e.eval(env) for e in result].
EvalSweep ==
    /\ pc = "idle"
    /\ result # None
    /\ \E env \in Envs :
        /\ evalEnv' = Some(env)
        /\ evalOut' = [i \in DOMAIN result[1] |-> Eval(result[1][i], env)]
    /\ UNCHANGED <<poolVars, legacyVars, pc, max_size, memo, size, current,
                   left_size, reads, s, all_exprs, result, prev>>

Next ==
    \/ Call
    \/ ScaleRoundStep
    \/ BinaryStep
    \/ StoreClass
    \/ AggregateStep
    \/ Return
    \/ EvalSweep

Spec == Init /\ [][Next]_vars

\* ------------------------------------------------------- legacy_reimburse
\* Money is counted in thousandths of a dollar, so that a receipts amount
\* with a third decimal can be passed in.
Min(a, b) == IF a <= b THEN a ELSE b
Max(a, b) == IF a >= b THEN a ELSE b

\* The per-diem component.
per_diem(d) ==
    IF d = 5 THEN (100 * d + 75) * 1000
    ELSE IF d >= 9 THEN (90 * d) * 1000
    ELSE (100 * d) * 1000

\* The mileage component: four tiers at 0.58, 0.45, 0.30 and 0.35 per mile.
mileage(m) ==
    LET tier1 == Min(m, 100)
        rem1 == m - tier1
        tier2 == IF rem1 > 0 THEN Min(rem1, 175) ELSE 0
        rem2 == rem1 - tier2
        tier3 == IF rem2 > 0 THEN Min(rem2, 641) ELSE 0
        rem3 == rem2 - tier3
        tier4 == IF rem3 > 0 THEN rem3 ELSE 0
    IN  tier1 * 580 + tier2 * 450 + tier3 * 300 + tier4 * 350

\* round(total, 2): the nearest cent. When the decimal value lies exactly
\* half way, the binary double nearest to it lies on one side or the other,
\* so either neighbour can be the result.
Round2(total) ==
    LET lo == (total \div 10) * 10
        rem == total - lo
    IN  IF rem < 5 THEN {lo}
        ELSE IF rem > 5 THEN {lo + 10}
        ELSE {lo, lo + 10}

\* The values legacy_reimburse(d, m, r) can return.
legacy_reimburse(d, m, r) == Round2(Max(per_diem(d) + mileage(m), r))

\* Mileages around every tier boundary.
Miles == {0, 50, 100, 101, 275, 276, 916, 917, 1000}

\* Receipts amounts in thousandths: whole cents, and amounts with a third
\* decimal.
Receipts == {0, 99990, 100004, 100005, 123450, 2000006, 2500000}

InitLegacy ==
    /\ VAR_NAMES = <<"d", "m", "r">>
    /\ CONST_VALUES = <<>>
    /\ MULTIPLIERS = <<>>
    /\ ROUND_P = <<0>>
    /\ pc = "idle"
    /\ max_size = 0
    /\ memo = <<>>
    /\ size = 0
    /\ current = <<>>
    /\ left_size = 0
    /\ reads = {}
    /\ s = 0
    /\ all_exprs = <<>>
    /\ result = None
    /\ prev = None
    /\ evalEnv = None
    /\ evalOut = <<>>
    /\ lr_in \in (1..MaxDays) \X Miles \X Receipts
    /\ lr_out = None

\* legacy_reimburse(d, m, r) is called and returns.
LegacyReimburse ==
    /\ lr_in # None
    /\ lr_out = None
    /\ \E v \in legacy_reimburse(lr_in[1], lr_in[2], lr_in[3]) :
        lr_out' = Some(v)
    /\ UNCHANGED <<poolVars, enumVars, lr_in>>

NextLegacy == LegacyReimburse

SpecLegacy == InitLegacy /\ [][NextLegacy]_vars

\* ================================================================= claims
Returned == pc = "idle" /\ result # None
Result == result[1]
Strs(exprs) == {Str(exprs[i]) : i \in DOMAIN exprs}
X == Var("x")
Add(l, r) == Binary("+", l, r)
Scenario ==
    /\ VAR_NAMES = <<"x">>
    /\ CONST_VALUES = <<1, 2>>
    /\ MULTIPLIERS = <<>>
    /\ ROUND_P = <<>>

\* C1 (as stated): in the scenario {x} / {1, 2} with N = 3 the size-1 class
\* is {x, 1, 2}, the size-3 class holds add(x,x), add(x,1), add(x,2),
\* add(1,1), add(1,2), add(2,2) and none of add(1,x), add(2,x), add(2,1),
\* it has 6 elements, and 9 elements are returned.
C1_ScenarioAsStated ==
    (Scenario /\ Returned /\ max_size = 3) =>
        /\ Range(memo[1]) = {X, Const(1), Const(2)}
        /\ {Add(X, X), Add(X, Const(1)), Add(X, Const(2)),
            Add(Const(1), Const(1)), Add(Const(1), Const(2)),
            Add(Const(2), Const(2))} \subseteq Range(memo[3])
        /\ {Add(Const(1), X), Add(Const(2), X), Add(Const(2), Const(1))}
               \cap Range(memo[3]) = {}
        /\ Len(memo[3]) = 6
        /\ Len(Result) = 9

\* C1 (amended): in the scenario with N = 3 the size-1 class is [x, 1, 2],
\* the size-2 class is empty, the '+' elements of the size-3 class are exactly
\* add(x,x), add(1,x), add(2,x), add(1,1), add(1,2), add(2,2) (operands in
\* string order, '1' < '2' < 'x'), each once; the class has 27 elements over
\* the four fixed operators and 30 elements are returned.
C1_Scenario ==
    (Scenario /\ Returned /\ max_size = 3) =>
        LET adds == SelectSeq(memo[3], LAMBDA e : e.op = "+")
        IN  /\ memo[1] = <<X, Const(1), Const(2)>>
            /\ memo[2] = <<>>
            /\ Range(adds) =
                 {Add(X, X), Add(Const(1), X), Add(Const(2), X),
                  Add(Const(1), Const(1)), Add(Const(1), Const(2)),
                  Add(Const(2), Const(2))}
            /\ Len(adds) = 6
            /\ {Add(X, Const(1)), Add(X, Const(2)), Add(Const(2), Const(1))}
                   \cap Range(memo[3]) = {}
            /\ Len(memo[3]) = 27
            /\ Len(Result) = 30

C1_Witness ==
    /\ Scenario /\ Returned /\ max_size = 3
    /\ Add(Const(1), X) \in Range(Result)

\* C2: no two positions of a returned list hold the same canonical string.
C2_Dedup ==
    Returned => Cardinality(Strs(Result)) = Len(Result)

C2_Witness ==
    /\ Returned /\ max_size = MaxSize
    /\ \E i, j \in DOMAIN Result :
        /\ Result[i].tag = "Scale" /\ Result[i].op = "*"
        /\ Result[j] = Scale("/", Result[i].expr, Result[i].k)
    /\ \E i, j \in DOMAIN Result : Size(Result[i]) # Size(Result[j])

\* C3: if Binary(op, A, B) with a commutative op is returned, Binary(op, B, A)
\* is not returned too, unless str(A) = str(B).
C3_CommutativeSkip ==
    Returned =>
        LET res == Range(Result)
        IN  \A e \in res :
                (/\ e.tag = "Binary"
                 /\ e.op \in COMMUTATIVE_OPS
                 /\ Binary(e.op, e.right, e.left) \in res)
                => Str(e.left) = Str(e.right)

C3_Witness ==
    /\ Returned
    /\ \E i \in DOMAIN Result :
        /\ Result[i].tag = "Binary"
        /\ Result[i].op = "max"
        /\ Str(Result[i].left) # Str(Result[i].right)
        /\ Size(Result[i].left) # Size(Result[i].right)
        /\ Binary("max", Result[i].right, Result[i].left) \notin Range(Result)

\* C4: every expression stored in memo[k] has size() = k, at every point of
\* the run, and every returned expression has a size in 1..max_size.
C4_SizeClass ==
    /\ \A k \in DOMAIN memo : \A i \in DOMAIN memo[k] : Size(memo[k][i]) = k
    /\ Returned =>
        \A i \in DOMAIN Result :
            1 <= Size(Result[i]) /\ Size(Result[i]) <= max_size

C4_Witness ==
    /\ pc = "scale_round" /\ size = MaxSize
    /\ \E i \in DOMAIN memo[MaxSize - 1] :
        memo[MaxSize - 1][i].tag = "Binary"
    /\ \E i \in DOMAIN memo[MaxSize - 1] :
        memo[MaxSize - 1][i].tag = "Round"

\* C5 (as stated): with an empty variable set or constant pool the enumerator
\* stops with InvalidPool at startup, so no call returns a result.
C5_InvalidPool ==
    (VAR_NAMES = <<>> \/ CONST_VALUES = <<>>) => result = None

\* C6: e.eval(env) of a returned e yields a number when env binds every Var
\* name of e, and raises the unbound-variable error (KeyError) otherwise.
C6_EvalTotal ==
    (Returned /\ evalEnv # None) =>
        \A i \in DOMAIN evalOut :
            IF VarsOf(Result[i]) \subseteq DOMAIN evalEnv[1]
            THEN evalOut[i].ok
            ELSE ~evalOut[i].ok /\ evalOut[i].err = "KeyError"

C6_Witness ==
    /\ Returned /\ evalEnv # None
    /\ \E i \in DOMAIN evalOut :
        /\ ~evalOut[i].ok
        /\ Result[i].tag = "Binary"
        /\ Result[i].left.tag = "Const"
    /\ \E i \in DOMAIN evalOut :
        /\ evalOut[i].ok
        /\ Result[i].tag = "Scale" /\ Result[i].op = "/"
        /\ VarsOf(Result[i]) # {}

\* C7: a call with a smaller bound returns a subset, by canonical string, of
\* what a call with a larger bound returns.
C7_Monotone ==
    (Returned /\ prev # None) =>
        /\ prev[1] < max_size => Strs(prev[2]) \subseteq Strs(Result)
        /\ max_size < prev[1] => Strs(Result) \subseteq Strs(prev[2])

C7_Witness ==
    /\ Returned /\ prev # None
    /\ 1 <= prev[1] /\ prev[1] < max_size
    /\ prev[2] # <<>>
    /\ Len(prev[2]) < Len(Result)

\* C8 (as stated): the value legacy_reimburse returns is never lower than
\* the receipts amount r.
C8_ReceiptsSafeguard ==
    lr_out # None => lr_out[1] >= lr_in[3]

\* C9: for a commutative op and A, B from classes a, b with a + b = k - 1,
\* class k holds Binary(op, A, B) or Binary(op, B, A).
C9_NoPairLost ==
    \A k \in DOMAIN memo :
        LET cls == Range(memo[k])
        IN  \A a \in 1..(k - 2) :
                \A i \in DOMAIN memo[a] :
                    \A j \in DOMAIN memo[k - 1 - a] :
                        \A op \in COMMUTATIVE_OPS :
                            LET A == memo[a][i]
                                B == memo[k - 1 - a][j]
                            IN  \/ Binary(op, A, B) \in cls
                                \/ Binary(op, B, A) \in cls

C9_Witness ==
    /\ 4 \in DOMAIN memo
    /\ memo[1] # <<>> /\ memo[2] # <<>>
    /\ \E i \in DOMAIN memo[4] :
        /\ memo[4][i].tag = "Binary" /\ memo[4][i].op = "min"
        /\ Size(memo[4][i].left) = 2
        /\ Binary("min", memo[4][i].right, memo[4][i].left)
               \notin Range(memo[4])

\* Every class read so far for class `size` is smaller and already stored.
ReadsStored ==
    pc = "binary" => \A k \in reads : k < size /\ k \in DOMAIN memo

\* A step inside a call leaves every stored class as it is.
MemoFrozen ==
    pc # "idle" =>
        \A k \in DOMAIN memo : k \in DOMAIN memo' /\ memo'[k] = memo[k]

\* C10: while class `size` is built only stored classes k < size are read,
\* and inside a call a stored class is never changed again.
C10_SizeOrder == [](ReadsStored) /\ [][MemoFrozen]_vars

C10_Witness ==
    /\ pc = "aggregate" /\ s = 3 /\ max_size = 4
    /\ reads = {1, 2, 3}
    /\ memo[2] # <<>>
====
